---------------------------- MODULE Spec2Model ----------------------------
(***************************************************************************)
(* Model of matgendb/vv/diff.py: the Delta rule parser/evaluator and the   *)
(* Differ.diff algorithm.                                                  *)
(*                                                                         *)
(* Strings are sequences of one-character strings.  Floating point values  *)
(* are modelled by exact rationals [n, d] (d a power of ten) or by         *)
(* integers; the comparisons of Delta are evaluated by cross               *)
(* multiplication, so no rounding is modelled.                             *)
(***************************************************************************)
EXTENDS Integers, Sequences, FiniteSets, TLC

VARIABLES
    \* ---- Delta: one rule under construction and one evaluation of it
    dpc,        \* "new" | "built" | "failed" | "compared"
    s,          \* the expression string given to Delta(s)
    delta,      \* the Delta object, or NoDelta
    derr,       \* the error raised by Delta.__init__, or "none"
    old, new,   \* arguments of the last Delta.cmp call
    out,        \* result of the last Delta.cmp call
    \* ---- Differ: the configuration given to __init__ and to diff
    props,          \* self._props: the equality fields, in order
    prop_deltas,    \* self._prop_deltas: numeric field -> Delta object
    info_fields,    \* self._info: the informational fields, in order
    only_missing,   \* diff's argument
    allow_dup,      \* diff's argument
    \* ---- Differ.diff: its position and its locals
    pc,             \* "begin" | "loop" | "compare" | "done"
    i,              \* index of the source being read, 1 or 2
    keys,           \* keys[i]: set of keys
    eqprops,        \* eqprops[i]: key -> equality tuple
    numprops,       \* numprops[i]: key -> (numeric field -> value)
    info,           \* key -> (informational field -> value)
    count,          \* records read from the current source
    missing_props,  \* the counter of line 104
    outcome,        \* how diff ended: [kind, exc, line], kind "none" while running
    result,         \* the mapping diff returned
    \* ---- what the record sources have yielded so far (history)
    seen,           \* seen[i]: keys of the records source i yielded
    keyless,        \* a record without the key field was yielded
    lacking,        \* records of the current source lacking a compared property
    dupl,           \* the current source yielded a key a second time
    last            \* last[i]: key -> what the last record with that key carried

dvars == <<dpc, s, delta, derr, old, new, out>>
cvars == <<props, prop_deltas, info_fields, only_missing, allow_dup>>
lvars == <<pc, i, keys, eqprops, numprops, info, count, missing_props, outcome, result>>
hvars == <<seen, keyless, lacking, dupl, last>>
vars == <<dvars, cvars, lvars, hvars>>

----------------------------------------------------------------------------
(* Bounds *)

\* longest expression string given to Delta
MaxLen == 6

\* characters the expression strings are drawn from
Alphabet == {"+", "-", "=", "%", ".", "0", "5"}

\* old/new values Delta.cmp is evaluated on
CmpVals == {-2, -1, 0, 1, 2, 3, 6, 7, 20, 21}

----------------------------------------------------------------------------
(* Strings *)

Digits == <<"0", "1", "2", "3", "4", "5", "6", "7", "8", "9">>

IsDigit(c) == \E k \in 1..10 : Digits[k] = c

DigitVal(c) == (CHOOSE k \in 1..10 : Digits[k] = c) - 1

\* s[p], or "" past the end of the string
At(str, p) == IF p \in 1..Len(str) THEN str[p] ELSE ""

RECURSIVE Pow10(_)
Pow10(k) == IF k = 0 THEN 1 ELSE 10 * Pow10(k - 1)

RECURSIVE DigitsEnd(_, _)
\* \d+ at position p, greedy: the first position after the run of digits
DigitsEnd(str, p) == IF IsDigit(At(str, p)) THEN DigitsEnd(str, p + 1) ELSE p

\* _num = \d+(\.\d+)? tried at position p, greedy: the first position after
\* the number, or p when no number starts at p.
NumEnd(str, p) ==
    LET q == DigitsEnd(str, p)
    IN  IF q = p THEN p
        ELSE IF At(str, q) = "." /\ IsDigit(At(str, q + 1))
             THEN DigitsEnd(str, q + 1)
             ELSE q

RECURSIVE IntOf(_)
\* the integer a run of digits denotes
IntOf(ds) == IF ds = <<>> THEN 0
             ELSE 10 * IntOf(SubSeq(ds, 1, Len(ds) - 1)) + DigitVal(ds[Len(ds)])

\* float(tok) for a token matched by _num: the exact rational n/d
Float(tok) ==
    LET dot == IF \E k \in 1..Len(tok) : tok[k] = "."
               THEN CHOOSE k \in 1..Len(tok) : tok[k] = "."
               ELSE Len(tok) + 1
        ip  == SubSeq(tok, 1, dot - 1)
        fp  == SubSeq(tok, dot + 1, Len(tok))
    IN  [n |-> IntOf(ip) * Pow10(Len(fp)) + IntOf(fp), d |-> Pow10(Len(fp))]

----------------------------------------------------------------------------
(* Delta *)

\* m is None: the expression did not match
None == [none |-> TRUE]

\* a group of the match that did not take part in it (Python's None); a
\* group that took part is never the empty string
NoGroup == <<>>

NoDelta == [nodelta |-> TRUE]

\* Delta._expr.match(s): None (no match at the start of s), or the match:
\* the groups X, Y (a token or None), eq, pct and the end of the span.
\* The pattern is \+(X)?-(Y)?(=)?(%)? ; every group is greedy and a shorter
\* X can never be followed by "-", so the greedy scan is the whole search.
ExprMatch(str) ==
    IF At(str, 1) # "+" THEN None
    ELSE LET xe == NumEnd(str, 2)
         IN  IF At(str, xe) # "-" THEN None
             ELSE LET ye == NumEnd(str, xe + 1)
                      ee == IF At(str, ye) = "=" THEN ye + 1 ELSE ye
                      pe == IF At(str, ee) = "%" THEN ee + 1 ELSE ee
                  IN  [X   |-> IF xe > 2 THEN SubSeq(str, 2, xe - 1) ELSE NoGroup,
                       Y   |-> IF ye > xe + 1 THEN SubSeq(str, xe + 1, ye - 1) ELSE NoGroup,
                       eq  |-> IF ee > ye THEN <<"=">> ELSE NoGroup,
                       pct |-> IF pe > ee THEN <<"%">> ELSE NoGroup,
                       end |-> pe - 1]

Neg(r) == [n |-> 0 - r.n, d |-> r.d]

Zero == [n |-> 0, d |-> 1]

\* Delta.__init__ without the check of line 243 for junk after the match
DeltaInit_NoJunkCheck(str) ==
    LET m == ExprMatch(str)
    IN  IF m = None
        THEN [err |-> "ValueError", obj |-> NoDelta]
        ELSE IF m.X = NoGroup /\ m.Y = NoGroup
        THEN [err |-> "none",
              obj |-> [orig_expr |-> str, sign |-> TRUE, dx |-> Zero, dy |-> Zero,
                       pct |-> FALSE, eq |-> FALSE]]
        ELSE IF m.X # NoGroup /\ m.Y = NoGroup
        THEN [err |-> "ValueError", obj |-> NoDelta]
        ELSE [err |-> "none",
              obj |-> [orig_expr |-> str, sign |-> FALSE,
                       dy |-> Neg(Float(m.Y)),
                       dx |-> Float(IF m.X # NoGroup THEN m.X ELSE m.Y),
                       eq |-> m.eq # NoGroup,
                       pct |-> m.pct # NoGroup]]

\* Delta.__init__(s): [err, obj]; obj is NoDelta when the constructor raises
DeltaInit(str) ==
    LET m == ExprMatch(str)
    IN  IF m = None
        THEN [err |-> "ValueError", obj |-> NoDelta]
        ELSE IF m.end # Len(str)
        THEN [err |-> "ValueError", obj |-> NoDelta]
        ELSE IF m.X = NoGroup /\ m.Y = NoGroup
        THEN [err |-> "none",
              obj |-> [orig_expr |-> str, sign |-> TRUE, dx |-> Zero, dy |-> Zero,
                       pct |-> FALSE, eq |-> FALSE]]
        ELSE IF m.X # NoGroup /\ m.Y = NoGroup
        THEN [err |-> "ValueError", obj |-> NoDelta]
        ELSE [err |-> "none",
              obj |-> [orig_expr |-> str, sign |-> FALSE,
                       dy |-> Neg(Float(m.Y)),
                       dx |-> Float(IF m.X # NoGroup THEN m.X ELSE m.Y),
                       eq |-> m.eq # NoGroup,
                       pct |-> m.pct # NoGroup]]

\* p/q compared with the rational r, q # 0
RatGT(p, q, r) == IF q > 0 THEN p * r.d > r.n * q ELSE p * r.d < r.n * q
RatLT(p, q, r) == IF q > 0 THEN p * r.d < r.n * q ELSE p * r.d > r.n * q
RatGE(p, q, r) == ~RatLT(p, q, r)
RatLE(p, q, r) == ~RatGT(p, q, r)

\* Delta._cmp_sign
CmpSign(a, b) == (a < 0 /\ 0 < b) \/ (a > 0 /\ 0 > b)

\* the threshold test with the inclusive lower comparison turned round
\* (delta >= dy for delta <= dy)
Threshold_LowerTurned(dl, p, q) ==
    IF dl.eq
    THEN RatGE(p, q, dl.dx) \/ RatGE(p, q, dl.dy)
    ELSE RatGT(p, q, dl.dx) \/ RatLT(p, q, dl.dy)

\* the threshold test shared by _cmp_val and _cmp_val_pct, delta = p/q
Threshold(dl, p, q) ==
    IF dl.eq
    THEN RatGE(p, q, dl.dx) \/ RatLE(p, q, dl.dy)
    ELSE RatGT(p, q, dl.dx) \/ RatLT(p, q, dl.dy)

\* _cmp_val with the delta taken as old - new
CmpVal_Swapped(dl, a, b) == Threshold(dl, a - b, 1)

\* Delta._cmp_val
CmpVal(dl, a, b) == Threshold(dl, b - a, 1)

\* Delta._cmp_val_pct
CmpValPct(dl, a, b) == IF a = 0 THEN FALSE ELSE Threshold(dl, 100 * (b - a), a)

\* Delta.cmp: the comparison function chosen at the end of __init__
Cmp(dl, a, b) ==
    IF dl.sign THEN CmpSign(a, b)
    ELSE IF dl.pct THEN CmpValPct(dl, a, b)
    ELSE CmpVal(dl, a, b)

----------------------------------------------------------------------------
(* Records and raw values *)

\* most records one source yields
MaxRecs == 2

KeyField == "_id"

\* A raw field value is [t, v]: its Python type and its text.  Absent marks
\* a field the record does not have.
Absent == [t |-> "absent", v |-> ""]
IntV(x) == [t |-> "int", v |-> x]
StrV(x) == [t |-> "str", v |-> x]

\* the texts float() reads as a number, with the number
NumText == ("-1" :> -1) @@ ("1" :> 1)

\* "{:f}".format(x)
FormatF == (-1 :> "-1.000000") @@ (1 :> "1.000000")

\* float(raw) succeeds
IsNumber(raw) == raw.v \in DOMAIN NumText

\* float(raw)
FloatOf(raw) == NumText[raw.v]

\* str(raw)
Str(raw) == raw.v

Range(q) == {q[k] : k \in 1..Len(q)}

EmptyMap == [x \in {} |-> 0]

\* d[k] = v on a dict
Put(d, k, v) == [x \in DOMAIN d \cup {k} |-> IF x = k THEN v ELSE d[x]]

\* d.update(v) or d
Update(d, v) == [x \in DOMAIN d \cup DOMAIN v |-> IF x \in DOMAIN v THEN v[x] ELSE d[x]]

\* the orders a set may be iterated in
Orders(S) == {q \in [1..Cardinality(S) -> S] : Range(q) = S}

\* values the sources hold in each kind of field
KeyVals == {IntV("1"), IntV("2")}
NumVals == {IntV("1"), StrV("1"), StrV("x")}
EqVals == ("f" :> {IntV("1"), StrV("1"), StrV("2")}) @@ ("g" :> {StrV("a")})
InfoVals == {StrV("x")}

\* the rule texts the Differ is configured with
RuleTexts == {<<"+", "-">>, <<"+", "-", "0", "=">>, <<"+", "-", "2", "=", "%">>}

----------------------------------------------------------------------------
(* Differ.__init__ and the start of diff *)

has_info == info_fields # <<>>
has_eqprops == props # <<>>
has_numprops == DOMAIN prop_deltas # {}
all_props == Range(props) \cup DOMAIN prop_deltas
has_props == all_props # {}

\* the projection given to coll.query
fields == Range(info_fields) \cup all_props \cup {KeyField}

MkRec(k, e, f, g, n) ==
    (KeyField :> k) @@ ("e" :> e) @@ ("f" :> f) @@ ("g" :> g) @@ ("n" :> n)

Proj(name, vals) == IF name \in fields THEN vals \cup {Absent} ELSE {Absent}

\* the records coll.query(criteria, properties=fields) may yield
Records ==
    {MkRec(k, e, f, g, n) : k \in KeyVals \cup {Absent},
                            e \in Proj("e", NumVals),
                            f \in Proj("f", EqVals["f"]),
                            g \in Proj("g", EqVals["g"]),
                            n \in Proj("n", InfoVals)}

----------------------------------------------------------------------------
(* Differ.diff: one record of the main query loop *)

NoTuple == <<"no tuple">>

Return(line) == [kind |-> "return", exc |-> "", line |-> line]
Raise(exc, line) == [kind |-> "raise", exc |-> exc, line |-> line]
Running == [kind |-> "none", exc |-> "", line |-> 0]

\* lines 119-126: pvals of a record whose present numeric fields are numbers
Pvals(rec) ==
    [p \in {x \in DOMAIN prop_deltas : rec[x] # Absent} |-> FloatOf(rec[p])]

\* lines 123-126: the numeric fields the record lacks, one count each
NumMissing(rec) == Cardinality({p \in DOMAIN prop_deltas : rec[p] = Absent})

\* lines 127-129: some present numeric field is not a number
NotANumber(rec) == \E p \in DOMAIN prop_deltas : rec[p] # Absent /\ ~IsNumber(rec[p])

\* line 134: the equality tuple, or NoTuple when rec[p] raises KeyError
PropVal(rec) ==
    IF \E k \in 1..Len(props) : rec[props[k]] = Absent
    THEN NoTuple
    ELSE [k \in 1..Len(props) |-> <<props[k], Str(rec[props[k]])>>]

\* lines 135-138: the record lacks an equality field: count it and go on to
\* the next record
EqSkips(rec) == has_eqprops /\ PropVal(rec) = NoTuple

\* line 130 keeping the values of the first record with the key
NumpropsPut_FirstWins(d, key, rec) == IF key \in DOMAIN d THEN d ELSE Put(d, key, Pvals(rec))

\* line 130: numprops[i] after the record
NumpropsPut(d, key, rec) == Put(d, key, Pvals(rec))

\* line 139: eqprops[i] after the record
EqpropsPut(d, key, rec) == Put(d, key, PropVal(rec))

\* lines 143-146: info after a record that has every informational field
InfoPut(d, key, rec) ==
    Put(d, key, Update(IF key \in DOMAIN d THEN d[key] ELSE EmptyMap,
                       [k \in Range(info_fields) |-> rec[k]]))

\* lines 108-113 without the except clause: the KeyError of line 109 leaves diff
NoKeyOutcome_Uncaught == Raise("KeyError", 109)

\* lines 108-113: the record has no key field: the diff returns {}
NoKeyOutcome == Return(113)

\* what the record carries, as the history keeps it: its numeric values,
\* its equality tuple, and the tuple of the last record with its key that
\* had one (prev is the history of the key so far)
Carried(rec, prev) ==
    LET t == IF has_eqprops THEN PropVal(rec) ELSE NoTuple
    IN  [num |-> Pvals(rec), eq |-> t, full |-> IF t # NoTuple THEN t ELSE prev.full]

NoHistory == [num |-> EmptyMap, eq |-> NoTuple, full |-> NoTuple]

\* the record lacks one of the compared properties
Lacks(rec) == \E p \in all_props : rec[p] = Absent

\* lines 105-146: the loop body for one record
Yield(rec) ==
    /\ pc = "loop"
    /\ count < MaxRecs
    /\ LET key == rec[KeyField] IN
       IF key = Absent
       THEN /\ outcome' = NoKeyOutcome
            /\ result' = EmptyMap
            /\ pc' = "done"
            /\ keyless' = TRUE
            /\ count' = count + 1
            /\ UNCHANGED <<i, keys, eqprops, numprops, info, missing_props,
                           seen, lacking, dupl, last>>
       ELSE IF ~allow_dup /\ key \in keys[i]
       THEN /\ outcome' = Raise("ValueError", 115)
            /\ pc' = "done"
            /\ dupl' = TRUE
            /\ count' = count + 1
            /\ UNCHANGED <<i, keys, eqprops, numprops, info, missing_props,
                           result, seen, keyless, lacking, last>>
       ELSE IF has_numprops /\ NotANumber(rec)
       THEN /\ outcome' = Raise("ValueError", 128)
            /\ pc' = "done"
            /\ count' = count + 1
            /\ keys' = [keys EXCEPT ![i] = @ \cup {key}]
            /\ seen' = [seen EXCEPT ![i] = @ \cup {key}]
            /\ dupl' = (dupl \/ key \in seen[i])
            /\ UNCHANGED <<i, eqprops, numprops, info, missing_props,
                           result, keyless, lacking, last>>
       ELSE /\ count' = count + 1
            /\ keys' = [keys EXCEPT ![i] = @ \cup {key}]
            /\ numprops' = IF has_numprops
                           THEN [numprops EXCEPT ![i] = NumpropsPut(@, key, rec)]
                           ELSE numprops
            /\ missing_props' = missing_props
                                + (IF has_numprops THEN NumMissing(rec) ELSE 0)
                                + (IF EqSkips(rec) THEN 1 ELSE 0)
            /\ eqprops' = IF has_eqprops /\ ~EqSkips(rec)
                          THEN [eqprops EXCEPT ![i] = EqpropsPut(@, key, rec)]
                          ELSE eqprops
            /\ IF has_info /\ ~EqSkips(rec)
               THEN IF \E k \in Range(info_fields) : rec[k] = Absent
                    THEN /\ outcome' = Raise("KeyError", 146)
                         /\ pc' = "done"
                         /\ info' = info
                    ELSE /\ info' = InfoPut(info, key, rec)
                         /\ UNCHANGED <<outcome, pc>>
               ELSE UNCHANGED <<outcome, pc, info>>
            /\ seen' = [seen EXCEPT ![i] = @ \cup {key}]
            /\ dupl' = (dupl \/ key \in seen[i])
            /\ lacking' = lacking + (IF Lacks(rec) THEN 1 ELSE 0)
            /\ last' = [last EXCEPT ![i] =
                          Put(@, key, Carried(rec, IF key \in DOMAIN @ THEN @[key]
                                                   ELSE NoHistory))]
            /\ UNCHANGED <<i, result, keyless>>
    /\ UNCHANGED <<dvars, cvars>>

\* line 104, at the head of the loop over the two sources
Begin ==
    /\ pc = "begin"
    /\ count' = 0
    /\ missing_props' = 0
    /\ lacking' = 0
    /\ pc' = "loop"
    /\ UNCHANGED <<i, keys, eqprops, numprops, info, outcome, result,
                   seen, keyless, dupl, last>>
    /\ UNCHANGED <<dvars, cvars>>

\* line 149: no record of the source had its properties
AllMissing(cnt, miss) == 0 < cnt /\ cnt = miss

\* lines 148-156: the source is exhausted
EndSource ==
    /\ pc = "loop"
    /\ IF AllMissing(count, missing_props)
       THEN /\ outcome' = Return(152)
            /\ result' = EmptyMap
            /\ pc' = "done"
            /\ i' = i
       ELSE /\ pc' = IF i = 1 THEN "begin" ELSE "compare"
            /\ i' = IF i = 1 THEN 2 ELSE i
            /\ UNCHANGED <<outcome, result>>
    /\ UNCHANGED <<keys, eqprops, numprops, info, count, missing_props, hvars>>
    /\ UNCHANGED <<dvars, cvars>>

----------------------------------------------------------------------------
(* Differ._changed_props and the result *)

\* line 162 without the set difference
MissingKeys_All(ks) == ks[1]

\* line 162
MissingKeys(ks) == ks[1] \ ks[2]

\* line 164
NewKeys(ks) == ks[2] \ ks[1]

\* line 199
CommonKeys(ks) == ks[1] \cap ks[2]

\* the order self._prop_deltas is iterated in
PropOrder == CHOOSE q \in Orders(DOMAIN prop_deltas) : TRUE

\* line 208, 214: _up(change, info[key]) if info else change
WithInfo(change, key) == IF info # EmptyMap THEN Update(change, info[key]) ELSE change

\* line 208, 214: info[key] raises KeyError
InfoKeyError(key) == info # EmptyMap /\ key \notin DOMAIN info

\* line 204: the rule of pkey matches the two values of key
DeltaMatches(key, pkey) ==
    Cmp(prop_deltas[pkey], numprops[1][key][pkey], numprops[2][key][pkey])

\* line 203: a lookup of numprops[.][key][pkey] raises KeyError
NumKeyError(key, pkey) ==
    \/ key \notin DOMAIN numprops[1] \/ key \notin DOMAIN numprops[2]
    \/ pkey \notin DOMAIN numprops[1][key] \/ pkey \notin DOMAIN numprops[2][key]

\* lines 205-207
DeltaChange(key, pkey) ==
    ("match_type" :> "delta") @@ (KeyField :> key) @@ ("property" :> pkey)
    @@ ("old" :> FormatF[numprops[1][key][pkey]])
    @@ ("new" :> FormatF[numprops[2][key][pkey]])
    @@ ("rule" :> prop_deltas[pkey])

\* lines 212-213
ExactChange(key) ==
    ("match_type" :> "exact") @@ (KeyField :> key)
    @@ ("old" :> eqprops[1][key]) @@ ("new" :> eqprops[2][key])

\* line 211: a lookup of eqprops[.][key] raises KeyError
EqKeyError(key) == key \notin DOMAIN eqprops[1] \/ key \notin DOMAIN eqprops[2]

\* line 211
ExactDiffers(key) == ~(eqprops[1][key] = eqprops[2][key])

\* lines 210-214 appending one record for each equality field
ExactChanges_PerField(key) ==
    IF has_eqprops /\ ExactDiffers(key)
    THEN [k \in 1..Len(props) |-> WithInfo(ExactChange(key), key)]
    ELSE <<>>

\* lines 210-214: the changes the exact comparison of key appends
ExactChanges(key) ==
    IF has_eqprops /\ ExactDiffers(key) THEN <<WithInfo(ExactChange(key), key)>> ELSE <<>>

RECURSIVE NumChanges(_, _)
\* lines 201-208: the changes the rules append for key, over the fields ps
NumChanges(key, ps) ==
    IF ps = <<>> THEN <<>>
    ELSE (IF DeltaMatches(key, Head(ps))
          THEN <<WithInfo(DeltaChange(key, Head(ps)), key)>> ELSE <<>>)
         \o NumChanges(key, Tail(ps))

RECURSIVE NumError(_, _)
\* lines 201-208: the line of the first KeyError over the fields ps, or 0
NumError(key, ps) ==
    IF ps = <<>> THEN 0
    ELSE IF NumKeyError(key, Head(ps)) THEN 203
    ELSE IF DeltaMatches(key, Head(ps)) /\ InfoKeyError(key) THEN 208
    ELSE NumError(key, Tail(ps))

\* lines 200-214 for one key: the line of the first KeyError, or 0
KeyError(key) ==
    LET ne == IF has_numprops THEN NumError(key, PropOrder) ELSE 0
    IN  IF ne # 0 THEN ne
        ELSE IF ~has_eqprops THEN 0
        ELSE IF EqKeyError(key) THEN 211
        ELSE IF ExactDiffers(key) /\ InfoKeyError(key) THEN 214
        ELSE 0

RECURSIVE ChangedProps(_)
\* _changed_props, the common keys taken in the order ord:
\* [err: the line of the KeyError raised or 0, changed: the list]
ChangedProps(ord) ==
    IF ord = <<>> THEN [err |-> 0, changed |-> <<>>]
    ELSE LET key == Head(ord)
             e   == KeyError(key)
         IN  IF e # 0 THEN [err |-> e, changed |-> <<>>]
             ELSE LET rest == ChangedProps(Tail(ord))
                  IN  [err |-> rest.err,
                       changed |-> (IF has_numprops THEN NumChanges(key, PropOrder) ELSE <<>>)
                                   \o ExactChanges(key) \o rest.changed]

\* lines 179-182, 186-189: the record of a missing or an additional key
KeyRecord(key) ==
    IF has_info
    THEN Update((KeyField :> key), IF key \in DOMAIN info THEN info[key] ELSE EmptyMap)
    ELSE (KeyField :> key)

\* lines 176-190
BuildResult(missOrd, newOrd, changed) ==
    ("missing" :> [k \in 1..Len(missOrd) |-> KeyRecord(missOrd[k])])
    @@ (IF only_missing THEN EmptyMap
        ELSE ("additional" :> [k \in 1..Len(newOrd) |-> KeyRecord(newOrd[k])]))
    @@ ("different" :> changed)

\* lines 160-193: the differences and the result; the sets are iterated in
\* an order the code does not choose
Compare ==
    /\ pc = "compare"
    /\ \E ord \in Orders(CommonKeys(keys)), missOrd \in Orders(MissingKeys(keys)),
          newOrd \in Orders(NewKeys(keys)) :
          LET ch == IF has_props THEN ChangedProps(ord) ELSE [err |-> 0, changed |-> <<>>]
          IN  IF ch.err # 0
              THEN /\ outcome' = Raise("KeyError", ch.err)
                   /\ result' = result
              ELSE /\ outcome' = Return(193)
                   /\ result' = BuildResult(missOrd, newOrd, ch.changed)
    /\ pc' = "done"
    /\ UNCHANGED <<i, keys, eqprops, numprops, info, count, missing_props, hvars>>
    /\ UNCHANGED <<dvars, cvars>>

----------------------------------------------------------------------------
(* Differ: specification *)

EqFieldOrders == {<<>>, <<"f", "g">>}
InfoOrders == {<<>>, <<"n">>}

\* the locals of diff before its loop (lines 85-97), and an empty history
DiffStart ==
    /\ pc = "begin"
    /\ i = 1
    /\ keys = <<{}, {}>>
    /\ eqprops = <<EmptyMap, EmptyMap>>
    /\ numprops = <<EmptyMap, EmptyMap>>
    /\ info = EmptyMap
    /\ count = 0
    /\ missing_props = 0
    /\ outcome = Running
    /\ result = EmptyMap
    /\ seen = <<{}, {}>>
    /\ keyless = FALSE
    /\ lacking = 0
    /\ dupl = FALSE
    /\ last = <<EmptyMap, EmptyMap>>

DeltaIdle ==
    /\ dpc = "idle"
    /\ s = <<>>
    /\ delta = NoDelta
    /\ derr = "none"
    /\ old = 0
    /\ new = 0
    /\ out = FALSE

\* no Differ exists
DifferIdle ==
    /\ props = <<>>
    /\ prop_deltas = EmptyMap
    /\ info_fields = <<>>
    /\ only_missing = FALSE
    /\ allow_dup = FALSE
    /\ pc = "idle"
    /\ i = 1
    /\ keys = <<{}, {}>>
    /\ eqprops = <<EmptyMap, EmptyMap>>
    /\ numprops = <<EmptyMap, EmptyMap>>
    /\ info = EmptyMap
    /\ count = 0
    /\ missing_props = 0
    /\ outcome = Running
    /\ result = EmptyMap
    /\ seen = <<{}, {}>>
    /\ keyless = FALSE
    /\ lacking = 0
    /\ dupl = FALSE
    /\ last = <<EmptyMap, EmptyMap>>

\* Differ(props, info, deltas) and diff(c1, c2, only_missing, allow_dup)
Init ==
    /\ DeltaIdle
    /\ props \in EqFieldOrders
    /\ prop_deltas \in {EmptyMap} \cup {("e" :> DeltaInit(t).obj) : t \in RuleTexts}
    /\ info_fields \in InfoOrders
    /\ only_missing \in BOOLEAN
    /\ allow_dup \in BOOLEAN
    /\ DiffStart

Step == \E rec \in Records : Yield(rec)

Next == Begin \/ Step \/ EndSource \/ Compare

Spec == Init /\ [][Next]_vars

----------------------------------------------------------------------------
(* Delta: specification *)

Strings == UNION {[1..k -> Alphabet] : k \in 0..MaxLen}

InitDelta ==
    /\ dpc = "new"
    /\ s \in Strings
    /\ delta = NoDelta
    /\ derr = "none"
    /\ old = 0
    /\ new = 0
    /\ out = FALSE
    /\ DifferIdle

\* Delta(s)
Construct ==
    /\ dpc = "new"
    /\ LET r == DeltaInit(s)
       IN  /\ delta' = r.obj
           /\ derr' = r.err
           /\ dpc' = IF r.err = "none" THEN "built" ELSE "failed"
    /\ UNCHANGED <<s, old, new, out, cvars, lvars, hvars>>

\* delta.cmp(old, new)
CallCmp ==
    /\ dpc \in {"built", "compared"}
    /\ \E a \in CmpVals, b \in CmpVals :
          /\ old' = a
          /\ new' = b
          /\ out' = Cmp(delta, a, b)
    /\ dpc' = "compared"
    /\ UNCHANGED <<s, delta, derr, cvars, lvars, hvars>>

NextDelta == Construct \/ CallCmp

SpecDelta == InitDelta /\ [][NextDelta]_vars

----------------------------------------------------------------------------
(* The documented syntax, read independently of the matcher: the string   *)
(* is split at its only "-", and the markers are taken off its end.        *)

\* tok is a number of the documented syntax: digits, optionally "." digits
WellFormedNum(tok) ==
    /\ tok # <<>>
    /\ \A k \in 1..Len(tok) : IsDigit(tok[k]) \/ tok[k] = "."
    /\ Cardinality({k \in 1..Len(tok) : tok[k] = "."}) <= 1
    /\ tok[1] # "."
    /\ tok[Len(tok)] # "."

DashAt(str) == CHOOSE k \in 1..Len(str) : str[k] = "-"

\* the parts '+' [X] '-' [Y] ['='] ['%'] of a string with exactly one "-"
Parts(str) ==
    LET dash == DashAt(str)
        tail == SubSeq(str, dash + 1, Len(str))
        pct  == tail # <<>> /\ tail[Len(tail)] = "%"
        t1   == IF pct THEN SubSeq(tail, 1, Len(tail) - 1) ELSE tail
        eq   == t1 # <<>> /\ t1[Len(t1)] = "="
        t2   == IF eq THEN SubSeq(t1, 1, Len(t1) - 1) ELSE t1
    IN  [X |-> SubSeq(str, 2, dash - 1), Y |-> t2, eq |-> eq, pct |-> pct]

\* str is '+' [X] '-' [Y] ['='] ['%'], the whole of it
InGrammar(str) ==
    /\ Cardinality({k \in 1..Len(str) : str[k] = "-"}) = 1
    /\ str[1] = "+"
    /\ Parts(str).X = <<>> \/ WellFormedNum(Parts(str).X)
    /\ Parts(str).Y = <<>> \/ WellFormedNum(Parts(str).Y)

\* the documented rule table, for a string of the grammar that gives Y
\* whenever it gives X; the delta is p/q
RuleTable(str, a, b) ==
    LET ps == Parts(str)
        p  == IF ps.pct THEN 100 * (b - a) ELSE b - a
        q  == IF ps.pct THEN a ELSE 1
        Y  == Float(ps.Y)
        X  == IF ps.X = <<>> THEN Y ELSE Float(ps.X)
    IN  IF ps.X = <<>> /\ ps.Y = <<>>
        THEN (a < 0 /\ b > 0) \/ (a > 0 /\ b < 0)
        ELSE IF q = 0 THEN FALSE
        ELSE IF ps.eq
        THEN RatGE(p, q, X) \/ RatGE(0 - p, q, Y)
        ELSE RatGT(p, q, X) \/ RatGT(0 - p, q, Y)

\* C5: every evaluation of a successfully constructed rule gives what the
\* documented rule table gives for the rule's text and the pair (old, new):
\* '+-' is the strict change of sign, '+-X' is abs(new-old) > X, '+X-Y' is
\* (new-old) > X or (old-new) > Y, '=' makes the comparisons >=, '%' makes
\* the delta 100*(new-old)/old and never matches when old is 0.
C5_CmpIsRuleTable ==
    dpc = "compared" => out = RuleTable(s, old, new)

\* C5 witness: an inclusive percentage rule evaluated exactly on its
\* threshold, where it matches
C5_Witness ==
    /\ dpc = "compared"
    /\ delta.pct /\ delta.eq /\ out
    /\ old # 0
    /\ delta.dx.n > 0
    /\ 100 * (new - old) * delta.dx.d = delta.dx.n * old

\* C6: Delta(s) raises ValueError and yields no rule exactly when s is not
\* the whole of a string '+' [X] '-' [Y] ['='] ['%'] or gives X without Y;
\* for every other string the construction succeeds and yields a rule.
C6_ValueErrorIffBadSyntax ==
    dpc # "new" =>
        LET bad == \/ ~InGrammar(s)
                   \/ Parts(s).X # <<>> /\ Parts(s).Y = <<>>
        IN  /\ bad <=> (derr = "ValueError" /\ delta = NoDelta /\ dpc = "failed")
            /\ ~bad <=> (derr = "none" /\ delta # NoDelta /\ dpc # "failed")

\* C6 witness: a string of the grammar that gives X without Y was refused
C6_Witness ==
    /\ dpc = "failed"
    /\ InGrammar(s)
    /\ Parts(s).X # <<>>
    /\ Parts(s).Y = <<>>
    /\ derr = "ValueError"

----------------------------------------------------------------------------
(* Differ: properties *)

\* diff returned the result built at lines 176-193
Returned == outcome = Return(193)

\* diff got as far as _changed_props
Compared == pc = "done" /\ outcome.line >= 193

\* source j has been read to its end
Processed(j) == j < i \/ pc = "compare" \/ (pc = "done" /\ outcome.line >= 152)

\* the keys of a list of records
KeysOf(list) == {list[k][KeyField] : k \in DOMAIN list}

\* the records of a list that are changes of the given type for key
ChangesOf(list, type, key) ==
    {k \in DOMAIN list : list[k]["match_type"] = type /\ list[k][KeyField] = key}

\* key is in both sources and has no value of the numeric field p in one of
\* them, while another record of that source has one
LacksNumeric(key, p) ==
    /\ key \in keys[1] \cap keys[2]
    /\ \E j \in 1..2 :
          /\ p \notin DOMAIN numprops[j][key]
          /\ \E k2 \in keys[j] : p \in DOMAIN numprops[j][k2]

\* C1: when a key of both sources lacks a numeric property in one of them
\* (and the equality tuples of the common keys exist), diff returns its
\* result without raising, and the result holds no 'delta' record for that
\* key and property.
C1_MissingNumericIsSkipped ==
    (/\ Compared
     /\ has_numprops
     /\ \E key \in keys[1] \cap keys[2], p \in DOMAIN prop_deltas : LacksNumeric(key, p)
     /\ has_eqprops => \A key \in keys[1] \cap keys[2] : ~EqKeyError(key))
    => /\ Returned
       /\ \A key \in keys[1] \cap keys[2], p \in DOMAIN prop_deltas :
             LacksNumeric(key, p) =>
                 \A k \in ChangesOf(result["different"], "delta", key) :
                     result["different"][k]["property"] # p

\* the two snapshots are identical: same keys, same numeric values and same
\* equality tuples for every key
Identical ==
    /\ keys[1] = keys[2]
    /\ numprops[1] = numprops[2]
    /\ eqprops[1] = eqprops[2]

\* an inclusive rule one of whose thresholds is zero
ZeroInclusive(dl) == ~dl.sign /\ dl.eq /\ (dl.dx.n = 0 \/ dl.dy.n = 0)

\* C2, as stated: for identical snapshots 'different' is empty whatever the
\* rules are.
C2_IdenticalNeverDiffer ==
    (Returned /\ Identical) => result["different"] = <<>>

\* C2, amended: for identical snapshots 'different' is empty, for every
\* configuration in which no inclusive rule has a threshold of zero.
C2_IdenticalNeverDifferUnlessZeroInclusive ==
    (/\ Returned
     /\ Identical
     /\ \A p \in DOMAIN prop_deltas : ~ZeroInclusive(prop_deltas[p]))
    => result["different"] = <<>>

\* C2 witness: identical snapshots with a common key, a rule and equality
\* fields were compared
C2_Witness ==
    /\ Returned
    /\ Identical
    /\ keys[1] # {}
    /\ has_numprops /\ has_eqprops
    /\ \A p \in DOMAIN prop_deltas : ~ZeroInclusive(prop_deltas[p])
    /\ \E p \in DOMAIN prop_deltas : prop_deltas[p].eq /\ prop_deltas[p].pct

\* C3: in a returned result the keys of 'missing' are exactly K1 \ K2, one
\* entry each; 'additional' is present exactly when only_missing is false
\* and its keys are exactly K2 \ K1, one entry each; every 'different'
\* record has a key of K1 \cap K2.  K1, K2 are the keys the sources yielded.
C3_KeySets ==
    Returned =>
        /\ KeysOf(result["missing"]) = seen[1] \ seen[2]
        /\ Len(result["missing"]) = Cardinality(seen[1] \ seen[2])
        /\ ("additional" \in DOMAIN result) <=> ~only_missing
        /\ ~only_missing =>
              /\ KeysOf(result["additional"]) = seen[2] \ seen[1]
              /\ Len(result["additional"]) = Cardinality(seen[2] \ seen[1])
        /\ KeysOf(result["different"]) \subseteq seen[1] \cap seen[2]

\* C3 witness: two disjoint non-empty key sets were compared
C3_Witness ==
    /\ Returned
    /\ seen[1] # {} /\ seen[2] # {}
    /\ seen[1] \cap seen[2] = {}
    /\ ~only_missing
    /\ has_props
    /\ result["different"] = <<>>

\* C4: once a source has yielded a record without the key field, diff has
\* stopped at that record: it returned the empty mapping, and reads no
\* further record or source.
C4_NoKeyReturnsEmpty ==
    keyless =>
        /\ pc = "done"
        /\ outcome.kind = "return"
        /\ result = EmptyMap
        /\ ~ENABLED Next

\* C4 witness: the record without a key was the last of the second source,
\* after records with keys in both sources
C4_Witness ==
    /\ keyless
    /\ i = 2
    /\ count = MaxRecs
    /\ keys[1] # {} /\ keys[2] # {}

\* C7: in a returned result, a key of both sources whose two equality
\* tuples exist has exactly one 'exact' record, carrying both tuples, when
\* the tuples differ in some configured field, and none when they are equal.
C7_OneExactRecord ==
    (Returned /\ has_eqprops) =>
        \A key \in keys[1] \cap keys[2] :
            (key \in DOMAIN eqprops[1] /\ key \in DOMAIN eqprops[2]) =>
                LET recs == ChangesOf(result["different"], "exact", key)
                    differ == \E k \in 1..Len(props) :
                                 eqprops[1][key][k] # eqprops[2][key][k]
                IN  /\ Cardinality(recs) = IF differ THEN 1 ELSE 0
                    /\ \A k \in recs :
                          /\ result["different"][k]["old"] = eqprops[1][key]
                          /\ result["different"][k]["new"] = eqprops[2][key]

\* C7 witness: one common key's tuples differ and another's are equal
C7_Witness ==
    /\ Returned
    /\ has_eqprops
    /\ Len(props) > 1
    /\ \E k1 \in keys[1] \cap keys[2] : eqprops[1][k1] # eqprops[2][k1]
    /\ \E k2 \in keys[1] \cap keys[2] : eqprops[1][k2] = eqprops[2][k2]

\* the end-of-source check of lines 148-156 has just been made
SourceEnded ==
    \/ pc = "begin" /\ i = 2
    \/ pc = "compare"
    \/ pc = "done" /\ outcome = Return(152)

\* C8: with compared properties configured, the source just read aborts diff
\* for 'all properties missing' if and only if it yielded a record and every
\* record it yielded lacked a compared property.
C8_AbortIffAllRecordsLack ==
    (SourceEnded /\ has_props) =>
        (outcome = Return(152) <=> (count > 0 /\ lacking = count))

\* the numeric values and the equality tuple held for key in source j are
\* those of the last record source j yielded with that key
HeldIsLast(j, key) ==
    /\ has_numprops => numprops[j][key] = last[j][key].num
    /\ has_eqprops =>
          IF last[j][key].eq = NoTuple
          THEN key \notin DOMAIN eqprops[j]
          ELSE eqprops[j][key] = last[j][key].eq

\* the numeric values are those of the last record with that key, the
\* equality tuple is that of the last record with that key that had one
HeldIsLastWritten(j, key) ==
    /\ has_numprops => numprops[j][key] = last[j][key].num
    /\ has_eqprops =>
          IF last[j][key].full = NoTuple
          THEN key \notin DOMAIN eqprops[j]
          ELSE eqprops[j][key] = last[j][key].full

\* C9, as stated: a repeated key raises ValueError at line 115 when allow_dup
\* is false; when it is true diff does not raise for it, and after a source
\* is read the values held for each key are those of its last record.
C9_LastRecordWins ==
    /\ (dupl /\ ~allow_dup) =>
          (pc = "done" /\ outcome = Raise("ValueError", 115) /\ result = EmptyMap)
    /\ allow_dup =>
          /\ outcome # Raise("ValueError", 115)
          /\ \A j \in 1..2 : Processed(j) =>
                /\ keys[j] = seen[j]
                /\ \A key \in keys[j] : HeldIsLast(j, key)

\* C9, amended: as stated, except that the equality tuple held for a key is
\* that of the last record with that key that carried every equality field
\* (none when no record with that key did).
C9_LastWriteWins ==
    /\ (dupl /\ ~allow_dup) =>
          (pc = "done" /\ outcome = Raise("ValueError", 115) /\ result = EmptyMap)
    /\ allow_dup =>
          /\ outcome # Raise("ValueError", 115)
          /\ \A j \in 1..2 : Processed(j) =>
                /\ keys[j] = seen[j]
                /\ \A key \in keys[j] : HeldIsLastWritten(j, key)

\* C9 witness: with duplicates allowed, the first source yielded a key
\* twice, the second time without an equality field, and diff returned a
\* result that compares the key
C9_Witness ==
    /\ allow_dup
    /\ dupl
    /\ has_numprops /\ has_eqprops
    /\ Returned
    /\ \E key \in keys[1] \cap keys[2] :
          /\ last[1][key].eq = NoTuple
          /\ key \in DOMAIN eqprops[1]

\* C10: with informational fields configured, every key read has its
\* informational values captured, and every entry of 'missing' and
\* 'additional' in a returned result is the key field plus every
\* informational field.  (Stated for the configurations that compare
\* equality fields only, where missing_props counts records.)
C10_InfoOnEveryEntry ==
    (Returned /\ has_info /\ ~has_numprops) =>
        /\ \A key \in seen[1] \cup seen[2] : key \in DOMAIN info
        /\ \A k \in DOMAIN result["missing"] :
              DOMAIN result["missing"][k] = {KeyField} \cup Range(info_fields)
        /\ ~only_missing =>
              \A k \in DOMAIN result["additional"] :
                  DOMAIN result["additional"][k] = {KeyField} \cup Range(info_fields)

=============================================================================
